---- MODULE Spec2Model ----
(***************************************************************************)
(* The webhook pipeline of commit-emails-bot.                              *)
(*                                                                         *)
(* src/mailbot.go holds two builds of the program, one after the other:    *)
(*   "server"  lines 1-331: Server.githubEventHandler and                  *)
(*             PushHandler.githubPushHandler, built on go-github,          *)
(*             ghinstallation and src/config.go (commit-emails.toml);      *)
(*   "legacy"  lines 333-700: githubEventHandler, githubPushHandler,       *)
(*             syncRepo, gitClone, gitFetch and its own getConfig          *)
(*             (commit-emails.json).                                       *)
(* A process runs one build; `build` says which.                           *)
(*                                                                         *)
(* A string is a sequence of chunks (each chunk a TLA+ string), so that    *)
(* fmt.Sprintf and + are concatenation and a leak or a reordering shows.   *)
(* A SHA is a sequence of one-character chunks, so that s[:8] has a        *)
(* length to fail on.                                                      *)
(***************************************************************************)
EXTENDS Integers, Sequences, FiniteSets, TLC

VARIABLES
    build,      \* which build of mailbot.go is the running process
    Cfg,        \* the process configuration read at startup
    upstream,   \* the repository on github.com: its HEAD config file, or "down"
    mirror,     \* the bare mirrors on disk, by directory path
    req         \* the deliveries being handled, by handler slot

vars == <<build, Cfg, upstream, mirror, req>>

-----------------------------------------------------------------------------
(* Bounds of the model *)

\* characters of a full SHA in a payload (40 on github.com)
ShaLen == 10

-----------------------------------------------------------------------------
(* Program constants *)

\* (*event.Before)[:8], pushEvent.Before[:8]
LogShaLen == 8

StatusOK == 200

StatusBadRequest == 400

Rep(c, n) == [k \in 1..n |-> c]

-----------------------------------------------------------------------------
(* Requests: the payloads GitHub (or anyone) can post *)

AllFields ==
    {"full_name", "clone_url", "html_url", "installation", "committer",
     "before", "after", "ref"}

\* the JSON document of a push of o/r, every field present
FullPayload ==
    [has          |-> AllFields,
     full_name    |-> "o/r",
     clone_url    |-> "https://github.com/o/r.git",
     html_url     |-> "https://github.com/o/r",
     installation |-> 7,
     committer    |-> "Ann",
     before       |-> Rep("a", ShaLen),
     after        |-> Rep("b", ShaLen),
     ref          |-> "refs/heads/main"]

Without(p, fields) == [p EXCEPT !.has = @ \ fields]

\* request bodies, by name; "junk" is not JSON
Bodies == {"junk", "full", "min", "bare", "noinst", "delete", "short", "nohtml"}

\* encoding/json on the body: whether it decodes, and the fields it carries
ParseJSON(b) ==
    CASE b = "junk"   -> [ok |-> FALSE, p |-> Without(FullPayload, AllFields)]
      [] b = "full"   -> [ok |-> TRUE, p |-> FullPayload]
      [] b = "min"    -> [ok |-> TRUE,
                          p |-> Without(FullPayload, AllFields \ {"full_name", "clone_url"})]
      [] b = "bare"   -> [ok |-> TRUE,
                          p |-> Without(FullPayload, AllFields \ {"full_name"})]
      [] b = "noinst" -> [ok |-> TRUE, p |-> Without(FullPayload, {"installation"})]
      [] b = "delete" -> [ok |-> TRUE,
                          p |-> [Without(FullPayload, {"committer"})
                                    EXCEPT !.after = Rep("0", ShaLen)]]
      [] b = "short"  -> [ok |-> TRUE,
                          p |-> [FullPayload EXCEPT !.before = Rep("a", LogShaLen - 1),
                                                    !.after = Rep("b", LogShaLen - 1)]]
      [] b = "nohtml" -> [ok |-> TRUE, p |-> Without(FullPayload, {"html_url"})]

\* a field decoded into a Go string value: "" when the JSON has no such field
StrVal(p, f) == IF f \in p.has THEN p[f] ELSE ""

\* a SHA field decoded into a Go string value
ShaVal(p, f) == IF f \in p.has THEN p[f] ELSE <<>>

\* X-GitHub-Event values; "" is no header, "issues" a kind GitHub sends and the
\* bot does not handle, "foo" a kind go-github does not know
Kinds == {"", "ping", "push", "installation", "installation_repositories", "issues", "foo"}

\* the kinds in go-github's event table (of those modelled)
KnownEventTypes == {"ping", "push", "installation", "installation_repositories", "issues"}

Secrets == {"", "s1"}

\* HMAC under hash `alg` and key `key` of `body`: collision-free
HMAC(alg, key, body) == <<alg, key, body>>

OtherBody(b) == IF b = "full" THEN "min" ELSE "full"

\* signature headers: none; one that is not "<alg>=<hex>"; X-Hub-Signature-256
\* or X-Hub-Signature carrying a well-formed digest made with some key over
\* this body or over another one
Signatures ==
    {[hdr |-> "none", wellformed |-> FALSE, mac |-> <<>>],
     [hdr |-> "X-Hub-Signature-256", wellformed |-> FALSE, mac |-> <<>>]}
    \cup {[hdr |-> "X-Hub-Signature-256", wellformed |-> TRUE, mac |-> <<"sha256", k, b>>] :
            k \in Secrets, b \in {"own", "other"}}
    \cup {[hdr |-> "X-Hub-Signature", wellformed |-> TRUE, mac |-> <<"sha1", k, "own">>] :
            k \in Secrets}

\* the bodies each kind is posted with
BodiesOf(kind) ==
    CASE kind = "push" -> Bodies
      [] kind = "ping" -> {"full", "min", "bare"}
      [] kind = "issues" -> {"junk", "full"}
      [] OTHER -> {"full"}

\* POST /webhook deliveries, and a push sent with GET instead
Requests ==
    UNION {{[method |-> "POST", kind |-> k, body |-> b, sig |-> s] :
                b \in BodiesOf(k), s \in Signatures} : k \in Kinds}
    \cup {[method |-> "GET", kind |-> "push", body |-> "full", sig |-> s] :
                s \in {x \in Signatures : x.hdr = "X-Hub-Signature-256" /\ x.wellformed
                                             /\ x.mac[3] = "own"}}

\* the digest a signature header carries, for a request with body b
MacOf(s, b) ==
    IF s.wellformed
    THEN HMAC(s.mac[1], s.mac[2], IF s.mac[3] = "own" THEN b ELSE OtherBody(b))
    ELSE <<>>

-----------------------------------------------------------------------------
(* Errors, responses *)

\* a Go error value: nil, a plain error, or a MissingConfigError
NoErr == [type |-> "nil", msg |-> <<>>]

Err(msg) == [type |-> "error", msg |-> msg]

\* MissingConfigError.Error()
MissingConfigError == [type |-> "MissingConfigError", msg |-> <<"no commit-emails.toml found">>]

\* nothing written to the http.ResponseWriter (yet)
NoResp == [code |-> 0, body |-> <<>>]

\* the handler returned without writing: net/http answers 200 with no body
Implicit200 == [code |-> StatusOK, body |-> <<>>]

\* w.Write(msg) as the first write
Write(msg) == [code |-> StatusOK, body |-> msg]

\* http.Error(w, msg, http.StatusBadRequest)
HttpError(msg) == [code |-> StatusBadRequest, body |-> msg \o <<"\n">>]

-----------------------------------------------------------------------------
(* Webhook authentication and parsing *)

\* github.ValidatePayload (go-github v62): the signature is that of
\* X-Hub-Signature-256, or else of X-Hub-Signature; it is checked when a
\* secret is configured or a signature is given, under the hash its prefix
\* names.
ValidatePayload(r, secretToken) ==
    IF secretToken # "" \/ r.sig.hdr # "none"
    THEN IF r.sig.hdr = "none" THEN Err(<<"missing signature">>)
         ELSE IF ~r.sig.wellformed THEN Err(<<"error parsing signature">>)
         ELSE IF MacOf(r.sig, r.body) = HMAC(r.sig.mac[1], secretToken, r.body)
              THEN NoErr
              ELSE Err(<<"payload signature check failed">>)
    ELSE NoErr

\* github.ParseWebHook(github.WebHookType(req), payload): the event type is
\* looked up in the library's table, then the payload is decoded
ParseWebHook(kind, body) ==
    IF kind \notin KnownEventTypes
    THEN [err |-> Err(<<"unknown X-Github-Event in message: ", kind>>), p |-> ParseJSON("junk").p]
    ELSE IF ~ParseJSON(body).ok
         THEN [err |-> Err(<<"invalid character in JSON">>), p |-> ParseJSON("junk").p]
         ELSE [err |-> NoErr, p |-> ParseJSON(body).p]

\* legacy: fmt.Sscanf(sig, "sha256=%x", &expectedHash) reads one value iff
\* X-Hub-Signature-256 is "sha256=" and hex digits
legacy_Sscanf(r) ==
    IF r.sig.hdr = "X-Hub-Signature-256" /\ r.sig.wellformed
    THEN [n |-> 1, expectedHash |-> MacOf(r.sig, r.body)]
    ELSE [n |-> 0, expectedHash |-> <<>>]

\* legacy: hmac.New(sha256.New, webhookSecret) over the payload, hmac.Equal
legacy_hmacEqual(r, secret) == HMAC("sha256", secret, r.body) = legacy_Sscanf(r).expectedHash

-----------------------------------------------------------------------------
(* Repository configuration: .github/commit-emails.toml (.json for legacy) *)

\* what HEAD holds at the configuration file's path: nothing, text that does
\* not decode, or a document with `to`, an email format and perhaps a key the
\* bot does not know
NoFile == [kind |-> "nofile", to |-> "", format |-> "", extra |-> FALSE]

\* email formats a repository may write: none, the two the notifier knows,
\* and two it does not
Formats == {"", "html", "text", "pdf", "default"}

CfgFiles ==
    {NoFile, [kind |-> "garbage", to |-> "", format |-> "", extra |-> FALSE]}
    \cup {[kind |-> "doc", to |-> "dev@list", format |-> f, extra |-> FALSE] : f \in Formats}
    \cup {[kind |-> "doc", to |-> "dev@list", format |-> "text", extra |-> TRUE]}

\* CommitEmailConfig{}
ZeroConfig == [MailingList |-> "", Format |-> ""]

\* variant: the format is not checked
parseConfig_anyFormat(configText) ==
    IF configText.kind # "doc"
    THEN [err |-> Err(<<"decoding commit-emails.toml: ", "toml: error">>),
          config |-> ZeroConfig, warn |-> <<>>]
    ELSE [err |-> NoErr,
          config |-> [MailingList |-> configText.to, Format |-> configText.format],
          warn |-> <<>>]

\* parseConfig of config.go, on the text of a file that exists: the error,
\* the configuration and the slog.Warn lines
parseConfig(configText) ==
    IF configText.kind # "doc"
    THEN [err |-> Err(<<"decoding commit-emails.toml: ", "toml: error">>),
          config |-> ZeroConfig, warn |-> <<>>]
    ELSE LET warn == IF configText.extra
                     THEN << <<"unknown config fields", "fields=", "extra">> >>
                     ELSE <<>>
             format == configText.format
         IN  IF ~(format = "" \/ format = "html" \/ format = "text")
             THEN [err |-> Err(<<"invalid email.format (should be html or text): ", format>>),
                   config |-> ZeroConfig, warn |-> warn]
             ELSE [err |-> NoErr,
                   config |-> [MailingList |-> configText.to, Format |-> format],
                   warn |-> warn]

\* a mirror directory's state: absent, a bare repository whose HEAD holds
\* `head`, or a path that is not a directory
NoMirror == [state |-> "absent", head |-> NoFile]

Bare(head) == [state |-> "dir", head |-> head]

\* GitShow(gitRepo, "HEAD", ".github/commit-emails.toml"): git show
\* HEAD:<path> in the mirror
GitShow(m) ==
    IF m.state = "dir" /\ m.head.kind # "nofile"
    THEN [err |-> NoErr, text |-> m.head]
    ELSE [err |-> Err(<<"git show failed">>), text |-> NoFile]

\* getConfig of config.go
getConfig(m) ==
    IF GitShow(m).err # NoErr
    THEN [err |-> MissingConfigError, config |-> ZeroConfig, warn |-> <<>>]
    ELSE parseConfig(GitShow(m).text)

\* legacy: runGitCmd(gitRepo, "show", "HEAD:.github/commit-emails.json")
legacy_gitShow(m) ==
    IF m.state = "dir" /\ m.head.kind # "nofile"
    THEN [err |-> NoErr, text |-> m.head]
    ELSE [err |-> Err(<<"git [show HEAD:.github/commit-emails.json] failed: ",
                        "exit status 128", ": ", "fatal: path does not exist">>),
          text |-> NoFile]

\* legacy getConfig: the decoder disallows unknown fields
legacy_getConfig(m) ==
    IF legacy_gitShow(m).err # NoErr
    THEN [err |-> legacy_gitShow(m).err, config |-> ZeroConfig]
    ELSE LET t == legacy_gitShow(m).text
         IN  IF t.kind # "doc" \/ t.extra
             THEN [err |-> Err(<<"decoding commit-emails.json: ", "json: error">>),
                   config |-> ZeroConfig]
             ELSE IF t.format # "" /\ ~(t.format = "html" \/ t.format = "text")
                  THEN [err |-> Err(<<"invalid emailFormat (should be html or text): ", t.format>>),
                        config |-> ZeroConfig]
                  ELSE [err |-> NoErr, config |-> [MailingList |-> t.to, Format |-> t.format]]

-----------------------------------------------------------------------------
(* The mirror directory *)

\* filepath.Join(persistPath, "repos", "github.com", fullName)
gitDirOf(persistPath, fullName) ==
    IF fullName = ""
    THEN <<persistPath, "/repos/github.com">>
    ELSE <<persistPath, "/repos/github.com/", fullName>>

\* the mirror directories of the repositories that post here
Paths == {gitDirOf("persist", FullPayload.full_name)}

-----------------------------------------------------------------------------
(* The process, its disk and the deliveries in flight *)

Builds == {"server", "legacy"}

\* Cfg after init() and main(): the server build takes an unset (or still
\* encrypted) WEBHOOK_SECRET, GITHUB_APP_PRIVATE_KEY as empty; the legacy
\* build exits at startup without a WEBHOOK_SECRET
Configs(b) ==
    IF b = "server"
    THEN {c \in [PersistPath : {"persist"}, WebhookSecret : Secrets,
                  SmtpPassword : {"", "hunter2"}, AppPrivateKey : {"", "pem"}] :
            Cardinality({f \in {"WebhookSecret", "SmtpPassword", "AppPrivateKey"} :
                            c[f] = ""}) <= 1}
    ELSE [PersistPath : {"persist"}, WebhookSecret : Secrets \ {""},
          SmtpPassword : {"", "hunter2"}, AppPrivateKey : {""}]

Upstreams == [up : BOOLEAN, head : CfgFiles]

NoRequest ==
    [method |-> "", kind |-> "", body |-> "junk",
     sig |-> [hdr |-> "none", wellformed |-> FALSE, mac |-> <<>>]]

\* a handler slot with no delivery
Idle ==
    [pc       |-> "idle",
     in       |-> NoRequest,                \* the request
     authed   |-> FALSE,                    \* got past the signature check
     ev       |-> ParseJSON("junk").p,      \* the decoded event
     resp     |-> NoResp,                   \* what was written to the ResponseWriter
     panicked |-> FALSE,                    \* the handler goroutine panicked
     expiredAt |-> "none",                  \* the step in which ctx's deadline passed
     gitDir   |-> <<>>,
     gitOps   |-> <<>>,                     \* git commands run by the sync
     syncFrom |-> "none",                   \* the mirror's state as the sync found it
     syncFresh |-> FALSE,                   \* ... and whether it was up to date
     syncMoved |-> FALSE,                   \* upstream changed during the sync
     syncKept |-> FALSE,                    \* the sync left the mirror as it found it
     syncErr  |-> "none",                   \* the sync's result: "nil" or an error
     cmds     |-> <<>>,                     \* notifier invocations
     exit     |-> "none",                   \* how the notifier ended
     stats    |-> <<>>,                     \* calls on the stats database
     log      |-> <<>>,                     \* slog / log lines
     printed  |-> <<>>,                     \* lines printed on standard output
     stderr   |-> <<>>]                     \* what the notifier wrote on os.Stderr

Handlers == {"h1"}

Init ==
    /\ build \in Builds
    /\ Cfg \in Configs(build)
    /\ upstream \in Upstreams
    /\ mirror = [d \in Paths |-> NoMirror]
    /\ req = [i \in Handlers |-> Idle]

\* the handler is between its call of the sync and the sync's return
InSync(i) == req[i].pc \in {"sync", "l_stat", "l_clone", "l_fetch"}

\* variant: a request is taken up only while no sync is running
Free_singleFlight(i) ==
    /\ req[i].pc = "idle"
    /\ \A j \in DOMAIN req : ~InSync(j)

\* net/http starts a goroutine for every request
Free(i) == req[i].pc = "idle"

\* the handler goroutine panics: net/http recovers it and closes the connection
Panic(rec) == [rec EXCEPT !.pc = "done", !.panicked = TRUE]

Reply(rec, resp) == [rec EXCEPT !.pc = "done", !.resp = resp]

-----------------------------------------------------------------------------
(* The notifier subprocess *)

\* os.Environ()
OsEnviron == << <<"WEBHOOK_SECRET=", Cfg.WebhookSecret>>, <<"MAIL_SMTP_PASSWORD=", Cfg.SmtpPassword>> >>

\* cmd.Env of both builds
NotifierEnv(gitDir) ==
    OsEnviron \o
    << <<"GIT_DIR=">> \o gitDir,
       <<"GIT_CONFIG_GLOBAL=", "git-multimail.config">>,
       <<"GIT_CONFIG_PARAMETERS=", "'multimailhook.smtpPass=", Cfg.SmtpPassword, "'">> >>

\* variant: the two SHAs in the wrong order
NotifierStdin_afterFirst(before, after, ref) == after \o <<" ">> \o before \o <<" ", ref>>

\* fmt.Sprintf("%s %s %s", before, after, ref)
NotifierStdin(before, after, ref) == before \o <<" ">> \o after \o <<" ", ref>>

\* variant: the password handed over with -c, on the command line
ConfigArgs_smtpPassInArgv(config) ==
    << <<"-c">>, <<"multimailhook.mailingList=", config.MailingList>>,
       <<"-c">>, <<"multimailhook.smtpPass=", Cfg.SmtpPassword>> >>

\* the arguments both builds derive from the configuration
ConfigArgs(config) ==
    (IF Cfg.SmtpPassword = "" THEN << <<"--stdout">> >> ELSE <<>>)
    \o << <<"-c">>, <<"multimailhook.mailingList=", config.MailingList>> >>
    \o (IF config.Format # ""
        THEN << <<"-c">>, <<"multimailhook.commitEmailFormat=", config.Format>> >>
        ELSE <<>>)

\* the two arguments the server build adds from the event
EventArgs(ev) ==
    << <<"-c">>,
       <<"multimailhook.from=", ev.committer, " <notifications@commit-emails.xyz>">>,
       <<"-c">>,
       <<"multimailhook.commitBrowseURL=", ev.html_url, "/commit/%(id)s">> >>

\* how a started subprocess can end: exit status 0, exit status 1 after
\* writing on standard error, or not starting at all
Exits == {"0", "1", "startfail"}

NotifierStdout == <<"notifier: sent">>

NotifierStderr == <<"notifier: smtp refused">>

-----------------------------------------------------------------------------
(* The server build: Server.githubEventHandler, PushHandler.githubPushHandler *)

RepoOf(rec) == StrVal(rec.ev, "full_name")

\* the handler's answer to a failed push: http.Error and slog.Error
FailPush(rec, err) ==
    LET msg == <<"push handler failed: ">> \o err.msg
    IN  [rec EXCEPT !.pc = "done",
                    !.resp = HttpError(msg),
                    !.log = Append(@, <<"push handler", "error=">> \o msg
                                        \o <<"repo=", RepoOf(rec)>>)]

\* the handler's answer to a push that returned nil: AddPush, "OK", and the
\* log line made of the first 8 characters of *event.Before and *event.After
PushOK(rec) ==
    LET ev == rec.ev
        written == [rec EXCEPT !.pc = "done",
                               !.stats = Append(@, "AddPush"),
                               !.resp = Write(<<"OK">>)]
    IN  IF /\ {"before", "after"} \subseteq ev.has
           /\ Len(ev.before) >= LogShaLen
           /\ Len(ev.after) >= LogShaLen
        THEN [written EXCEPT !.log =
                 Append(@, <<"push success", "repo=", RepoOf(rec), "ref change=",
                             StrVal(ev, "ref"), ": ">>
                           \o SubSeq(ev.before, 1, LogShaLen) \o <<" -> ">>
                           \o SubSeq(ev.after, 1, LogShaLen))]
        ELSE Panic(written)

\* the mirror is what a sync of the present upstream leaves
Fresh(m) == upstream.up /\ m = Bare(upstream.head)

\* githubPushHandler up to its call of SyncRepo: *ev.Installation.ID and
\* ghinstallation.New, which parses the private key
StartPush(rec) ==
    LET d == gitDirOf(Cfg.PersistPath, RepoOf(rec))
    IN  IF "installation" \notin rec.ev.has THEN Panic(rec)
        ELSE IF Cfg.AppPrivateKey = ""
             THEN FailPush(rec, Err(<<"could not parse private key">>))
             ELSE [rec EXCEPT !.pc = "sync", !.gitDir = d,
                              !.syncFrom = mirror[d].state, !.syncFresh = Fresh(mirror[d])]

\* a delivery arrives and is authenticated, parsed and routed
Server_githubEventHandler(i) ==
    /\ build = "server"
    /\ Free(i)
    /\ \E r \in Requests :
          LET v == ValidatePayload(r, Cfg.WebhookSecret)
              e == ParseWebHook(r.kind, r.body)
              rec == [Idle EXCEPT !.in = r, !.authed = (v = NoErr), !.ev = e.p]
          IN  req' = [req EXCEPT ![i] =
                IF v # NoErr
                THEN Reply(rec, HttpError(<<"could not validate payload: ">> \o v.msg))
                ELSE IF e.err # NoErr
                THEN Reply(rec, HttpError(<<"could not parse webhook: ">> \o e.err.msg))
                ELSE CASE r.kind = "ping" -> Reply(rec, Write(<<"Pong">>))
                       [] r.kind = "push" -> StartPush(rec)
                       [] r.kind = "installation" ->
                            Reply([rec EXCEPT !.log = Append(@, <<"installation", "action=", "account=">>),
                                              !.stats = Append(@, "AddInstallation")],
                                  Implicit200)
                       [] r.kind = "installation_repositories" ->
                            Reply([rec EXCEPT !.log = Append(@, <<"installation", "action=", "account=">>),
                                              !.stats = Append(@, "UpdateInstallation")],
                                  Implicit200)
                       [] OTHER -> Reply(rec, Implicit200)]
    /\ UNCHANGED <<build, Cfg, upstream, mirror>>

\* SyncRepo(ctx, client, ev.Repo): clone when the mirror is absent, forced
\* fetch when it exists, an error when ctx is done or git fails; it may
\* report a repository without configuration as MissingConfigError
SyncRepo(m, ev, expired) ==
    IF expired
    THEN {[err |-> Err(<<"context deadline exceeded">>), m |-> m]}
    ELSE IF ~upstream.up \/ m.state = "file"
            \/ (m.state = "absent" /\ "clone_url" \notin ev.has)
         THEN {[err |-> Err(<<"git failed">>), m |-> m]}
         ELSE {[err |-> NoErr, m |-> Bare(upstream.head)]}
              \cup {[err |-> MissingConfigError, m |-> Bare(upstream.head)] :
                        x \in IF upstream.head.kind = "nofile" THEN {0} ELSE {}}

\* SyncRepo returns to githubPushHandler
Server_SyncRepo(i) ==
    /\ build = "server"
    /\ req[i].pc = "sync"
    /\ \E o \in SyncRepo(mirror[req[i].gitDir], req[i].ev, req[i].expiredAt # "none") :
          LET rec == [req[i] EXCEPT !.syncKept = (o.m = mirror[req[i].gitDir]),
                                    !.syncErr = o.err.type]
          IN  /\ mirror' = [mirror EXCEPT ![req[i].gitDir] = o.m]
              /\ req' = [req EXCEPT ![i] =
                    IF o.err.type = "MissingConfigError"
                    THEN PushOK([rec EXCEPT !.log =
                            Append(@, <<"push to unconfigured repo", "repo=", RepoOf(rec)>>)])
                    ELSE IF o.err # NoErr THEN FailPush(rec, o.err)
                    ELSE [rec EXCEPT !.pc = "config"]]
    /\ UNCHANGED <<build, Cfg, upstream>>

\* exec.Command("./git_multimail_wrapper.py", args...) with its Stdin and Env
PushCmd(rec, config) ==
    [args  |-> ConfigArgs(config) \o EventArgs(rec.ev),
     stdin |-> NotifierStdin(rec.ev.before, rec.ev.after, rec.ev.ref),
     env   |-> NotifierEnv(rec.gitDir)]

\* githubPushHandler from getConfig to the start of the subprocess
Server_getConfig(i) ==
    /\ build = "server"
    /\ req[i].pc = "config"
    /\ LET c == getConfig(mirror[req[i].gitDir])
           rec == [req[i] EXCEPT !.log = @ \o c.warn]
       IN  req' = [req EXCEPT ![i] =
             IF c.err # NoErr
             THEN FailPush(rec, Err(<<"could not get config for ", RepoOf(rec), ": ">> \o c.err.msg))
             ELSE IF ~({"committer", "html_url", "before", "after", "ref"} \subseteq rec.ev.has)
                  THEN Panic(rec)
                  ELSE [rec EXCEPT !.pc = "notify",
                                   !.cmds = Append(@, PushCmd(rec, c.config))]]
    /\ UNCHANGED <<build, Cfg, upstream, mirror>>

\* the error githubPushHandler makes of an *exec.ExitError: cmd.Stderr is
\* os.Stderr, so Output leaves ee.Stderr empty
ExitErrorOf(captured) ==
    Err(<<"git_multimail_wrapper.py failed: ", "exit status 1", ":\n">> \o captured)

\* variant: the subprocess is killed when ctx is done, as exec.CommandContext
\* would have it
NotifierDone_ctx(rec, x) ==
    IF rec.expiredAt # "none"
    THEN FailPush([rec EXCEPT !.exit = "killed"], Err(<<"context deadline exceeded">>))
    ELSE IF x = "0"
         THEN PushOK([rec EXCEPT !.exit = x, !.printed = Append(@, NotifierStdout)])
         ELSE FailPush([rec EXCEPT !.exit = x], ExitErrorOf(<<>>))

\* githubPushHandler from the return of cmd.Output() to the handler's answer:
\* exec.Command, not exec.CommandContext, so ctx plays no part
NotifierDone(rec, x) ==
    CASE x = "0" -> PushOK([rec EXCEPT !.exit = x, !.printed = Append(@, NotifierStdout)])
      [] x = "1" -> FailPush([rec EXCEPT !.exit = x, !.stderr = Append(@, NotifierStderr)],
                             ExitErrorOf(<<>>))
      [] OTHER -> FailPush([rec EXCEPT !.exit = x],
                           Err(<<"fork/exec ./git_multimail_wrapper.py: ",
                                 "no such file or directory">>))

\* cmd.Output() returns
Server_cmdOutput(i) ==
    /\ build = "server"
    /\ req[i].pc = "notify"
    /\ \E x \in Exits : req' = [req EXCEPT ![i] = NotifierDone(req[i], x)]
    /\ UNCHANGED <<build, Cfg, upstream, mirror>>

\* the 20 seconds of context.WithTimeout pass while the pipeline runs
DeadlineExpires(i) ==
    /\ build = "server"
    /\ req[i].pc \in {"sync", "config", "notify"}
    /\ req[i].expiredAt = "none"
    /\ req' = [req EXCEPT ![i].expiredAt = req[i].pc]
    /\ UNCHANGED <<build, Cfg, upstream, mirror>>

-----------------------------------------------------------------------------
(* The legacy build: githubEventHandler, syncRepo, githubPushHandler *)

\* the handler's answer to a failed sync of a ping, or to a failed push
legacy_Fail(rec, err) ==
    LET msg == IF rec.in.kind = "ping"
               THEN <<"syncing repo ", StrVal(rec.ev, "clone_url"), " failed: ">> \o err.msg
               ELSE <<"push handler failed: ">> \o err.msg
    IN  [rec EXCEPT !.pc = "done", !.resp = HttpError(msg), !.log = Append(@, msg)]

\* the handler's answer to a push that returned nil: "OK", and the log line
\* made of pushEvent.Before[:8] and pushEvent.After[:8]
legacy_PushOK(rec) ==
    LET before == ShaVal(rec.ev, "before")
        after == ShaVal(rec.ev, "after")
        written == [rec EXCEPT !.pc = "done", !.resp = Write(<<"OK">>)]
    IN  IF Len(before) >= LogShaLen /\ Len(after) >= LogShaLen
        THEN [written EXCEPT !.log =
                 Append(@, <<RepoOf(rec), ": push success: ", StrVal(rec.ev, "ref"), " ">>
                           \o SubSeq(before, 1, LogShaLen) \o <<" -> ">>
                           \o SubSeq(after, 1, LogShaLen))]
        ELSE Panic(written)

\* a delivery arrives and is authenticated, parsed and routed; a ping or a
\* push goes on to syncRepo
githubEventHandler(i) ==
    /\ build = "legacy"
    /\ Free(i)
    /\ \E r \in Requests :
          LET j == ParseJSON(r.body)
              authed == r.method = "POST" /\ legacy_Sscanf(r).n = 1
                        /\ legacy_hmacEqual(r, Cfg.WebhookSecret)
              rec == [Idle EXCEPT !.in = r, !.authed = authed]
              got == [rec EXCEPT !.ev = j.p,
                                 !.log = Append(@, <<RepoOf([ev |-> j.p]), ": ", r.kind, " from ", "">>)]
              d == gitDirOf(Cfg.PersistPath, RepoOf(got))
          IN  req' = [req EXCEPT ![i] =
                IF r.method # "POST"
                THEN Reply(rec, HttpError(<<"unexpected method: ", r.method>>))
                ELSE IF legacy_Sscanf(r).n # 1
                THEN Reply(rec, HttpError(<<"invalid signature: ", "input does not match format">>))
                ELSE IF ~legacy_hmacEqual(r, Cfg.WebhookSecret)
                THEN Reply(rec, HttpError(<<"signature verification failed">>))
                ELSE IF r.kind = ""
                THEN Reply(rec, HttpError(<<"no event type specified">>))
                ELSE IF ~j.ok
                THEN Reply(rec, HttpError(<<"failed to parse payload: ", "invalid character">>))
                ELSE IF r.kind \in {"ping", "push"}
                THEN [got EXCEPT !.pc = "l_stat", !.gitDir = d,
                                 !.syncFrom = mirror[d].state, !.syncFresh = Fresh(mirror[d])]
                ELSE Reply(got, Implicit200)]
    /\ UNCHANGED <<build, Cfg, upstream, mirror>>

\* variant: the mirror is cloned whether or not it exists
syncRepo_alwaysClone(m) == IF m.state = "file" THEN "fail" ELSE "l_clone"

\* syncRepo's os.Stat(gitDir): what it does next
syncRepo(m) ==
    CASE m.state = "absent" -> "l_clone"
      [] m.state = "file"   -> "fail"
      [] OTHER              -> "l_fetch"

\* the sync returns to its caller: an error ends the request; after a ping
\* "Pong" is written, after a push githubPushHandler goes on
legacy_Synced(rec, err, kept) ==
    LET r1 == [rec EXCEPT !.syncErr = err.type, !.syncKept = kept]
    IN  IF err # NoErr THEN legacy_Fail(r1, err)
        ELSE IF rec.in.kind = "ping" THEN Reply(r1, Write(<<"Pong">>))
        ELSE [r1 EXCEPT !.pc = "l_config"]

Legacy_syncRepo(i) ==
    /\ build = "legacy"
    /\ req[i].pc = "l_stat"
    /\ LET next == syncRepo(mirror[req[i].gitDir])
       IN  req' = [req EXCEPT ![i] =
             IF next = "fail"
             THEN legacy_Synced(req[i], Err(req[i].gitDir \o <<" exists and is not a directory">>), TRUE)
             ELSE [req[i] EXCEPT !.pc = next]]
    /\ UNCHANGED <<build, Cfg, upstream, mirror>>

\* runGitCmd's error for a git command that exits non-zero
GitError(cmd) == Err(<<"git [", cmd, "] failed: ", "exit status 128", ": ", "fatal">>)

\* gitClone(url, dest): git clone --bare --quiet url dest needs a URL that
\* answers and a destination that does not exist
gitClone(m, ev) ==
    IF upstream.up /\ "clone_url" \in ev.has /\ m.state = "absent"
    THEN [err |-> NoErr, m |-> Bare(upstream.head)]
    ELSE [err |-> GitError("clone"), m |-> m]

\* gitFetch(gitDir): git fetch --quiet --force origin *:* needs a repository
\* and an origin that answers
gitFetch(m) ==
    IF upstream.up /\ m.state = "dir"
    THEN [err |-> NoErr, m |-> Bare(upstream.head)]
    ELSE [err |-> GitError("fetch"), m |-> m]

Legacy_gitClone(i) ==
    /\ build = "legacy"
    /\ req[i].pc = "l_clone"
    /\ LET o == gitClone(mirror[req[i].gitDir], req[i].ev)
           rec == [req[i] EXCEPT !.gitOps = Append(@, "clone")]
       IN  /\ mirror' = [mirror EXCEPT ![req[i].gitDir] = o.m]
           /\ req' = [req EXCEPT ![i] =
                 IF o.err # NoErr THEN legacy_Synced(rec, o.err, TRUE)
                 ELSE [rec EXCEPT !.pc = "l_fetch",
                                  !.log = Append(@, <<"Cloned ", StrVal(rec.ev, "clone_url"), " to ">>
                                                    \o rec.gitDir)]]
    /\ UNCHANGED <<build, Cfg, upstream>>

Legacy_gitFetch(i) ==
    /\ build = "legacy"
    /\ req[i].pc = "l_fetch"
    /\ LET o == gitFetch(mirror[req[i].gitDir])
           rec == [req[i] EXCEPT !.gitOps = Append(@, "fetch")]
       IN  /\ mirror' = [mirror EXCEPT ![req[i].gitDir] = o.m]
           /\ req' = [req EXCEPT ![i] =
                 legacy_Synced(rec, o.err, o.m = mirror[req[i].gitDir])]
    /\ UNCHANGED <<build, Cfg, upstream>>

\* exec.Command("./git_multimail_wrapper.py", args...) of the legacy build
legacy_PushCmd(rec, config) ==
    [args  |-> ConfigArgs(config),
     stdin |-> NotifierStdin(ShaVal(rec.ev, "before"), ShaVal(rec.ev, "after"),
                             StrVal(rec.ev, "ref")),
     env   |-> NotifierEnv(rec.gitDir)]

\* githubPushHandler from its log line to the start of the subprocess
Legacy_getConfig(i) ==
    /\ build = "legacy"
    /\ req[i].pc = "l_config"
    /\ LET c == legacy_getConfig(mirror[req[i].gitDir])
           ev == req[i].ev
           rec == [req[i] EXCEPT !.log =
                     Append(@, <<"git_multimail_wrapper.py ">>
                               \o NotifierStdin(ShaVal(ev, "before"), ShaVal(ev, "after"),
                                                StrVal(ev, "ref")))]
           msg == <<"no commit-emails.json found for ", RepoOf(rec), ": ">> \o c.err.msg
       IN  req' = [req EXCEPT ![i] =
             IF c.err # NoErr
             THEN legacy_Fail([rec EXCEPT !.log = Append(@, msg)], Err(msg))
             ELSE [rec EXCEPT !.pc = "l_notify",
                              !.cmds = Append(@, legacy_PushCmd(rec, c.config))]]
    /\ UNCHANGED <<build, Cfg, upstream, mirror>>

\* cmd.Output() returns; its output is dropped
Legacy_cmdOutput(i) ==
    /\ build = "legacy"
    /\ req[i].pc = "l_notify"
    /\ \E x \in Exits :
          LET rec == [req[i] EXCEPT !.exit = x]
          IN  req' = [req EXCEPT ![i] =
                CASE x = "0" -> legacy_PushOK(rec)
                  [] x = "1" -> legacy_Fail([rec EXCEPT !.stderr = Append(@, NotifierStderr)],
                                            ExitErrorOf(<<>>))
                  [] OTHER -> legacy_Fail(rec, Err(<<"fork/exec ./git_multimail_wrapper.py: ",
                                                     "no such file or directory">>))]
    /\ UNCHANGED <<build, Cfg, upstream, mirror>>

-----------------------------------------------------------------------------
(* The environment *)

\* someone pushes to the repository, or github.com goes down or comes back
\* (ordered after the Return of a finished handler, with which it commutes)
UpstreamChange ==
    /\ \A i \in DOMAIN req : req[i].pc # "done"
    /\ \E u \in Upstreams \ {upstream} : upstream' = u
    /\ req' = [i \in DOMAIN req |->
                IF InSync(i) THEN [req[i] EXCEPT !.syncMoved = TRUE] ELSE req[i]]
    /\ UNCHANGED <<build, Cfg, mirror>>

\* the response is delivered and the handler's goroutine ends
Return(i) ==
    /\ req[i].pc = "done"
    /\ req' = [req EXCEPT ![i] = Idle]
    /\ UNCHANGED <<build, Cfg, upstream, mirror>>

Next ==
    \/ \E i \in DOMAIN req : Server_githubEventHandler(i)
    \/ \E i \in DOMAIN req : Server_SyncRepo(i)
    \/ \E i \in DOMAIN req : Server_getConfig(i)
    \/ \E i \in DOMAIN req : Server_cmdOutput(i)
    \/ \E i \in DOMAIN req : DeadlineExpires(i)
    \/ \E i \in DOMAIN req : githubEventHandler(i)
    \/ \E i \in DOMAIN req : Legacy_syncRepo(i)
    \/ \E i \in DOMAIN req : Legacy_gitClone(i)
    \/ \E i \in DOMAIN req : Legacy_gitFetch(i)
    \/ \E i \in DOMAIN req : Legacy_getConfig(i)
    \/ \E i \in DOMAIN req : Legacy_cmdOutput(i)
    \/ \E i \in DOMAIN req : Return(i)
    \/ UpstreamChange

Spec == Init /\ [][Next]_vars

-----------------------------------------------------------------------------
(* Two deliveries at once: net/http runs every request in a goroutine of its
   own, and neither build takes a lock around the sync *)

ConcHandlers == {"h1", "h2"}

\* a process with its secrets configured, and two handler goroutines
InitConc ==
    /\ build \in Builds
    /\ Cfg \in {c \in Configs(build) :
                  /\ c.WebhookSecret # ""
                  /\ c.SmtpPassword # ""
                  /\ build = "server" => c.AppPrivateKey # ""}
    /\ upstream \in Upstreams
    /\ mirror = [d \in Paths |-> NoMirror]
    /\ req = [i \in ConcHandlers |-> Idle]

\* the deliveries GitHub makes for a repository: signed pushes and pings
\* (the upstream stays as it is while the two are handled)
Delivered(i) ==
    /\ req[i].in.kind \in {"push", "ping"}
    /\ req[i].in.method = "POST"
    /\ req[i].authed
    /\ req[i].in.sig.hdr = "X-Hub-Signature-256"
    /\ req[i].in.sig.wellformed
    /\ MacOf(req[i].in.sig, req[i].in.body) = HMAC("sha256", Cfg.WebhookSecret, req[i].in.body)

NextConc ==
    \/ \E i \in DOMAIN req : Server_githubEventHandler(i) /\ Delivered(i)'
    \/ \E i \in DOMAIN req : Server_SyncRepo(i)
    \/ \E i \in DOMAIN req : Server_getConfig(i)
    \/ \E i \in DOMAIN req : Server_cmdOutput(i)
    \/ \E i \in DOMAIN req : DeadlineExpires(i)
    \/ \E i \in DOMAIN req : githubEventHandler(i) /\ Delivered(i)'
    \/ \E i \in DOMAIN req : Legacy_syncRepo(i)
    \/ \E i \in DOMAIN req : Legacy_gitClone(i)
    \/ \E i \in DOMAIN req : Legacy_gitFetch(i)
    \/ \E i \in DOMAIN req : Legacy_getConfig(i)
    \/ \E i \in DOMAIN req : Legacy_cmdOutput(i)
    \/ \E i \in DOMAIN req : Return(i)

SpecConc == InitConc /\ [][NextConc]_vars

-----------------------------------------------------------------------------
(* Properties *)

Range(q) == {q[k] : k \in DOMAIN q}

Done(i) == req[i].pc = "done"

\* no mirror sync, notifier invocation or stats update was made for the request
Untouched(i) ==
    /\ req[i].syncFrom = "none"
    /\ req[i].gitOps = <<>>
    /\ req[i].cmds = <<>>
    /\ req[i].stats = <<>>

\* the request's signature header is X-Hub-Signature-256 with the hex
\* HMAC-SHA256 of its own body under the configured secret
CarriesHmac(r) ==
    /\ r.sig.hdr = "X-Hub-Signature-256"
    /\ r.sig.wellformed
    /\ MacOf(r.sig, r.body) = HMAC("sha256", Cfg.WebhookSecret, r.body)

\* C1: a POST /webhook request whose signature header does not carry the hex
\* HMAC-SHA256 of its raw body under the configured secret (empty or not) is
\* answered 400, and no routing, sync, notifier invocation or stats update
\* happens for it.
C1_OnlySignedGetPast ==
    \A i \in DOMAIN req :
        (req[i].pc # "idle" /\ req[i].in.method = "POST" /\ ~CarriesHmac(req[i].in))
            => /\ Done(i)
               /\ req[i].resp.code = StatusBadRequest
               /\ Untouched(i)

\* a secret is configured and the request passed the signature check, with
\* the signature GitHub makes
Authenticated(i) ==
    /\ Cfg.WebhookSecret # ""
    /\ req[i].in.method = "POST"
    /\ req[i].authed
    /\ CarriesHmac(req[i].in)

\* the sync of the request succeeded and left a mirror whose HEAD has no
\* configuration file
SyncedNoConfig(i) ==
    /\ req[i].in.kind = "push"
    /\ Authenticated(i)
    /\ req[i].syncErr \in {"nil", "MissingConfigError"}
    /\ mirror[req[i].gitDir] = Bare(NoFile)

\* C2: an authenticated push to a repository whose mirror HEAD has no
\* configuration file ends with 200 "OK" and no notifier invocation.
C2_NoConfigIsSuccess ==
    \A i \in DOMAIN req :
        (Done(i) /\ SyncedNoConfig(i))
            => /\ req[i].resp = Write(<<"OK">>)
               /\ req[i].cmds = <<>>

\* the string holds the SMTP password
Leaks(str) == Cfg.SmtpPassword # "" /\ Cfg.SmtpPassword \in Range(str)

\* C3: in every run the SMTP password is in no argument and not on the
\* standard input of the notifier, in no log line, no printed line and no
\* response body; a notifier started with a password configured finds it in
\* GIT_CONFIG_PARAMETERS of its environment.
C3_PasswordOnlyInEnv ==
    \A i \in DOMAIN req :
        /\ \A c \in Range(req[i].cmds) :
              /\ \A a \in Range(c.args) : ~Leaks(a)
              /\ ~Leaks(c.stdin)
              /\ Cfg.SmtpPassword # "" =>
                    \E e \in Range(c.env) : e[1] = "GIT_CONFIG_PARAMETERS=" /\ Leaks(e)
        /\ \A l \in Range(req[i].log) \cup Range(req[i].printed) \cup Range(req[i].stderr) :
              ~Leaks(l)
        /\ ~Leaks(req[i].resp.body)

\* a run with a password configured whose notifier was started and failed
C3_Witness ==
    \E i \in DOMAIN req :
        /\ Done(i) /\ Cfg.SmtpPassword # ""
        /\ Len(req[i].cmds) = 1
        /\ req[i].exit = "1"
        /\ req[i].resp.code = StatusBadRequest

\* the formats configuration resolution accepts: none given (the default),
\* html, text
AllowedFormats == {"", "html", "text"}

\* the push pipeline of the request got as far as resolving the configuration
Resolved(i) ==
    /\ req[i].in.kind = "push"
    /\ req[i].syncErr = "nil"
    /\ req[i].pc \in {"notify", "l_notify", "done"}

\* C4: configuration resolution succeeds only for an email format that is
\* unset (default), html or text; a push whose configuration names another
\* format (pdf) fails with HTTP 400 and its notifier is never invoked.
C4_FormatChecked ==
    /\ \A f \in CfgFiles : parseConfig(f).err = NoErr => f.format \in AllowedFormats
    /\ \A i \in DOMAIN req :
          /\ req[i].cmds # <<>> => mirror[req[i].gitDir].head.format \in AllowedFormats
          /\ (/\ Resolved(i)
               /\ mirror[req[i].gitDir].head.kind = "doc"
               /\ mirror[req[i].gitDir].head.format \notin AllowedFormats)
                => /\ Done(i)
                   /\ req[i].resp.code = StatusBadRequest
                   /\ req[i].cmds = <<>>

\* a push rejected for the format pdf
C4_Witness ==
    \E i \in DOMAIN req :
        /\ Resolved(i) /\ Done(i)
        /\ build = "server"
        /\ mirror[req[i].gitDir].head.format = "pdf"
        /\ req[i].resp.code = StatusBadRequest

\* "b a r", character by character
Triple(b, a, r) ==
    [k \in 1..(Len(b) + Len(a) + 3) |->
        IF k <= Len(b) THEN b[k]
        ELSE IF k = Len(b) + 1 THEN " "
        ELSE IF k <= Len(b) + 1 + Len(a) THEN a[k - Len(b) - 1]
        ELSE IF k = Len(b) + Len(a) + 2 THEN " "
        ELSE r]

\* C5: the standard input of every notifier invocation is "b a r" for the
\* before-SHA b, after-SHA a and ref r of the request's own body.
C5_StdinIsTriple ==
    \A i \in DOMAIN req :
        \A c \in Range(req[i].cmds) :
            LET p == ParseJSON(req[i].in.body).p
            IN  c.stdin = Triple(ShaVal(p, "before"), ShaVal(p, "after"), StrVal(p, "ref"))

\* a notifier was started for a push of aaaa.. -> bbbb.. on refs/heads/main
C5_Witness ==
    \E i \in DOMAIN req :
        /\ req[i].in.body = "full"
        /\ Len(req[i].cmds) = 1
        /\ req[i].cmds[1].stdin[1] = "a"
        /\ req[i].cmds[1].stdin[ShaLen + 2] = "b"

\* C6: an authenticated request, with a body that parses, whose
\* X-GitHub-Event names a kind other than ping, push, installation and
\* installation_repositories is answered 200, with no mirror sync, notifier
\* invocation or stats update.
C6_OtherKindsAccepted ==
    \A i \in DOMAIN req :
        (/\ req[i].pc # "idle"
         /\ Authenticated(i)
         /\ ParseJSON(req[i].in.body).ok
         /\ req[i].in.kind \notin {"", "ping", "push", "installation", "installation_repositories"})
            => /\ Done(i)
               /\ req[i].resp.code = StatusOK
               /\ Untouched(i)

\* C7: an authenticated ping for a repository that can be cloned is
\* answered 200 "Pong", and the mirror of the repository then exists at
\* repos/github.com/<full-name> under the persistence root.
C7_PingCreatesMirror ==
    \A i \in DOMAIN req :
        (/\ Done(i)
         /\ Authenticated(i)
         /\ req[i].in.kind = "ping"
         /\ "clone_url" \in ParseJSON(req[i].in.body).p.has
         /\ upstream.up)
            => /\ req[i].resp = Write(<<"Pong">>)
               /\ mirror[<<Cfg.PersistPath, "/repos/github.com/", "o/r">>].state = "dir"

\* C8: syncRepo begins with a clone when it finds no mirror and runs only a
\* fetch when it finds one; a sync that finds the mirror as a sync of the
\* present upstream leaves it, with no upstream change meanwhile, succeeds
\* and leaves the mirror as it found it.
C8_SyncIdempotent ==
    \A i \in DOMAIN req :
        (build = "legacy" /\ req[i].syncErr # "none")
            => /\ req[i].syncFrom = "absent" => (req[i].gitOps # <<>> /\ req[i].gitOps[1] = "clone")
               /\ req[i].syncFrom = "dir" => req[i].gitOps = <<"fetch">>
               /\ (req[i].syncFresh /\ ~req[i].syncMoved)
                    => (req[i].syncErr = "nil" /\ req[i].syncKept)

\* a second sync of an unchanged repository has ended
C8_Witness ==
    \E i \in DOMAIN req :
        /\ build = "legacy"
        /\ req[i].syncFrom = "dir" /\ req[i].syncFresh /\ ~req[i].syncMoved
        /\ req[i].syncErr = "nil"
        /\ req[i].gitOps = <<"fetch">>
        /\ mirror[req[i].gitDir].head.kind = "doc"

\* the response reports the deadline
TimeoutReported(i) ==
    /\ req[i].resp.code = StatusBadRequest
    /\ "context deadline exceeded" \in Range(req[i].resp.body)

\* C9 as claimed: a push-pipeline run (of an authenticated push to a
\* repository with a valid configuration, whose handler returns) whose
\* deadline has expired, in whatever step, ends answered with a timeout
\* failure.
C9_DeadlineAborts ==
    \A i \in DOMAIN req :
        (/\ Done(i)
         /\ Authenticated(i)
         /\ ~req[i].panicked
         /\ req[i].expiredAt # "none"
         /\ (req[i].syncErr = "nil" =>
                parseConfig(mirror[req[i].gitDir].head).err = NoErr))
            => TimeoutReported(i)

\* C9 as amended: a run whose deadline expires once it has passed the sync
\* (in configuration resolution or in the notifier subprocess) is not
\* aborted; it ends with the result of that step, never with a timeout
\* failure, and a started notifier ends only by itself.
C9_NoAbortAfterSync ==
    \A i \in DOMAIN req :
        (Done(i) /\ req[i].expiredAt \in {"config", "notify"})
            => /\ ~TimeoutReported(i)
               /\ req[i].cmds # <<>> => req[i].exit \in Exits
               /\ req[i].exit = "0" => req[i].resp = Write(<<"OK">>)
               /\ req[i].exit \in {"1", "startfail"} => req[i].resp.code = StatusBadRequest

\* the deadline passed while the notifier ran, and the push was answered "OK"
C9_Witness ==
    \E i \in DOMAIN req :
        /\ Done(i)
        /\ req[i].expiredAt = "notify"
        /\ req[i].exit = "0"
        /\ req[i].resp = Write(<<"OK">>)

\* C10: a push whose notifier exits non-zero is answered 400 with a reason
\* that carries what the notifier wrote on standard error; one whose
\* notifier exits zero has the output printed and is answered 200 "OK".
C10_StderrInReason ==
    \A i \in DOMAIN req :
        (Done(i) /\ build = "server" /\ Authenticated(i))
            => /\ req[i].exit = "1" =>
                    /\ req[i].resp.code = StatusBadRequest
                    /\ Range(NotifierStderr) \subseteq Range(req[i].resp.body)
               /\ req[i].exit = "0" =>
                    /\ req[i].printed = <<NotifierStdout>>
                    /\ req[i].resp = Write(<<"OK">>)

-----------------------------------------------------------------------------
(* Concurrent deliveries *)

\* the handler is running git on the mirror
InGit(i) == req[i].pc \in {"sync", "l_clone", "l_fetch"}

\* handler j takes up a signed push of the repository handler i is syncing
\* and reaches the sync
JoinsSync(i, j) ==
    /\ Server_githubEventHandler(j) \/ githubEventHandler(j)
    /\ Delivered(j)'
    /\ req'[j].in.kind = "push"
    /\ InSync(j)'
    /\ req'[j].gitDir = req[i].gitDir

\* the next step of the sync of handler i
SyncStep(i) ==
    \/ Server_SyncRepo(i)
    \/ Legacy_syncRepo(i)
    \/ Legacy_gitClone(i)
    \/ Legacy_gitFetch(i)

\* C11: no lock or single-flight mechanism serializes mirror syncs: while one
\* handler is in the sync of a repository, a second handler can take up an
\* authenticated push of the same repository and enter the sync too, and
\* when two handlers are in the sync of one mirror directory each of them can
\* take its next step.
C11_SyncNotSerialized ==
    \A i, j \in DOMAIN req :
        i # j =>
            /\ (InSync(i) /\ Delivered(i) /\ req[j].pc = "idle")
                  => ENABLED JoinsSync(i, j)
            /\ (InSync(i) /\ InSync(j) /\ req[i].gitDir = req[j].gitDir)
                  => ENABLED SyncStep(i) /\ ENABLED SyncStep(j)

\* two handlers of authenticated pushes run git on the same mirror directory
C11_Witness ==
    \E i, j \in DOMAIN req :
        /\ i # j
        /\ InGit(i) /\ InGit(j)
        /\ Delivered(i) /\ Delivered(j)
        /\ req[i].in.kind = "push" /\ req[j].in.kind = "push"
        /\ req[i].gitDir = req[j].gitDir

-----------------------------------------------------------------------------
(* Pushes with fields missing *)

\* C12: every authenticated push event whose JSON parses is answered once,
\* with 200 "OK" or with 400 and a reason, by a handler that finishes normally
\* (no panic), whichever optional payload fields are absent or short; the push
\* is in the stats store only when the answer is 200 "OK".
C12_PushAlwaysAnswered ==
    \A i \in DOMAIN req :
        (Authenticated(i) /\ req[i].in.kind = "push" /\ ParseJSON(req[i].in.body).ok)
            => /\ ~req[i].panicked
               /\ Done(i) => \/ req[i].resp = Write(<<"OK">>)
                             \/ /\ req[i].resp.code = StatusBadRequest
                                /\ req[i].resp.body # <<>>
               /\ "AddPush" \in Range(req[i].stats) => req[i].resp = Write(<<"OK">>)

=============================================================================
